---- MODULE Spec2Model ----
(***************************************************************************)
(* password_auditor_V1.6.py: the scorer analyze_password, the aggregator   *)
(* analyze_file, the reporter print_report and main.                       *)
(*                                                                         *)
(* A password is a sequence of characters; a character is a one-element    *)
(* string, or the name of a code point ("U+4E2D") for the non-ASCII        *)
(* characters whose Python classification differs from every ASCII one.    *)
(***************************************************************************)
EXTENDS Integers, Sequences, FiniteSets, TLC

VARIABLES
    password,     \* analyze_password: the argument `password`
    min_length,   \* analyze_password / main: `min_length` (args.min_length)
    record,       \* analyze_password: the returned dict, NoRecord before the call
    file_exists,  \* environment: whether open(path) finds the file
    fault_at,     \* environment: number of lines read before a read raises; NoFault if none does
    fault_kind,   \* environment: the exception a failing read raises
    file,         \* environment: the lines of the file, without their line terminator
    top_n,        \* main: args.top
    pc,           \* main: position in the run
    pos,          \* analyze_file: lines consumed by `for line in f`
    results,      \* analyze_file: the list `results`
    analysis,     \* analyze_file: the returned dict, NoAnalysis before the return
    stdout,       \* what print_report has printed
    stderr,       \* the diagnostic the interpreter prints on SystemExit or a traceback
    exit_code     \* the exit status, NoExit while running

vars == <<password, min_length, record, file_exists, fault_at, fault_kind, file,
          top_n, pc, pos, results, analysis, stdout, stderr, exit_code>>

mainVars == <<file_exists, fault_at, fault_kind, file, top_n, pc, pos, results,
              analysis, stdout, stderr, exit_code>>

----------------------------------------------------------------------------
(* Bounds of the model.                                                    *)

MaxLen == 4          \* longest generated password
MaxThreshold == 2    \* largest generated min_length besides the default
MaxLines == 3        \* most lines in the input file
MaxTop == 2          \* largest --top

MIN_DEFAULT_LENGTH == 8

----------------------------------------------------------------------------
(* Characters and Python's str predicates on them.                         *)

LowerAZ == <<"a","b","c","d","e","f","g","h","i","j","k","l","m",
             "n","o","p","q","r","s","t","u","v","w","x","y","z">>
UpperAZ == <<"A","B","C","D","E","F","G","H","I","J","K","L","M",
             "N","O","P","Q","R","S","T","U","V","W","X","Y","Z">>

Range(s) == {s[i] : i \in DOMAIN s}

AsciiLower == Range(LowerAZ)
AsciiUpper == Range(UpperAZ)
AsciiDigit == {"0","1","2","3","4","5","6","7","8","9"}

LF == "\n"
CR == "\r"
Ideograph == "U+4E2D"      \* a letter without case: isalnum only
CircledSmallA == "U+24D0"  \* Other_Lowercase, category So: islower, not isalnum
CircledCapitalA == "U+24B6" \* Other_Uppercase, category So: isupper, not isalnum

\* c.islower()
islower(c) == c \in AsciiLower \cup {CircledSmallA}
\* c.isupper()
isupper(c) == c \in AsciiUpper \cup {CircledCapitalA}
\* c.isdigit()
isdigit(c) == c \in AsciiDigit
\* c.isalnum()
isalnum(c) == c \in AsciiLower \cup AsciiUpper \cup AsciiDigit \cup {Ideograph}

\* str.lower(), one character
lower_char(c) ==
    IF c \in AsciiUpper
    THEN LowerAZ[CHOOSE i \in DOMAIN UpperAZ : UpperAZ[i] = c]
    ELSE IF c = CircledCapitalA THEN CircledSmallA ELSE c

\* str.lower()
lower(s) == [i \in DOMAIN s |-> lower_char(s[i])]

\* rstrip left out: the text is taken as given
rstripNothing(s) == s

\* str.rstrip("\n\r")
RECURSIVE rstrip(_)
rstrip(s) ==
    IF s # <<>> /\ s[Len(s)] \in {LF, CR}
    THEN rstrip(SubSeq(s, 1, Len(s) - 1))
    ELSE s

----------------------------------------------------------------------------
(* analyze_password                                                        *)

LengthBonus == 2       \* score += 2, once per length threshold met
ExtraLength == 4       \* min_length + 4
RepeatPenalty == 2     \* score -= 2
DenylistPenalty == 3   \* score -= 3
WeakMax == 3           \* score <= 3: WEAK
MediumMax == 6         \* score <= 6: MEDIUM

Denylist == { <<"p","a","s","s","w","o","r","d">>,
              <<"q","w","e","r","t","y">>,
              <<"1","2","3","4","5","6">>,
              <<"l","e","t","m","e","i","n">> }

ShortWarning(n) ==
    "Password is shorter than recommended minimum (" \o ToString(n) \o ")."
MixWarning == "Use a mix of lowercase, uppercase, digits and symbols."
RepeatWarning == "Password is made of a single repeated character."
CommonWarning == "Password is a very common weak password."

\* sum(1 for flag in categories if flag)
CountTrue(flags) == Cardinality({i \in DOMAIN flags : flags[i]})

\* the clamp left out
ClampOff(score) == score

\* if score < 0: score = 0
Clamp(score) == IF score < 0 THEN 0 ELSE score

\* the first comparison strict: score < 3
ClassifyStrictWeak(score) ==
    IF score < WeakMax THEN "WEAK"
    ELSE IF score <= MediumMax THEN "MEDIUM"
    ELSE "STRONG"

\* the second comparison strict: score < 6
ClassifyStrictMedium(score) ==
    IF score <= WeakMax THEN "WEAK"
    ELSE IF score < MediumMax THEN "MEDIUM"
    ELSE "STRONG"

\* the if / elif / else that assigns strength
Classify(score) ==
    IF score <= WeakMax THEN "WEAK"
    ELSE IF score <= MediumMax THEN "MEDIUM"
    ELSE "STRONG"

\* length > 1 in place of length > 0
SingleRepeatedLong(raw) == Len(raw) > 1 /\ Cardinality(Range(raw)) = 1

\* if length > 0 and len(set(raw)) == 1
SingleRepeated(raw) == Len(raw) > 0 /\ Cardinality(Range(raw)) = 1

\* the lookup without .lower()
InDenylistCaseSensitive(raw) == raw \in Denylist

\* if raw.lower() in {...}
InDenylist(raw) == lower(raw) \in Denylist

\* sum(categories) < 1
FewCategoriesStrict(categories) == CountTrue(categories) < 1

\* sum(categories) <= 1
FewCategories(categories) == CountTrue(categories) <= 1

IfThen(cond, s) == IF cond THEN s ELSE <<>>

analyze_password(pw, minlen) ==
    LET raw == rstrip(pw)
        length == Len(raw)
        has_lower == \E i \in DOMAIN raw : islower(raw[i])
        has_upper == \E i \in DOMAIN raw : isupper(raw[i])
        has_digit == \E i \in DOMAIN raw : isdigit(raw[i])
        has_symbol == \E i \in DOMAIN raw : ~isalnum(raw[i])
        categories == <<has_lower, has_upper, has_digit, has_symbol>>
        score0 == (IF length >= minlen THEN LengthBonus ELSE 0)
                  + (IF length >= minlen + ExtraLength THEN LengthBonus ELSE 0)
        w0 == IfThen(length < minlen, <<ShortWarning(minlen)>>)
        score1 == score0 + CountTrue(categories)
        w1 == w0 \o IfThen(FewCategories(categories), <<MixWarning>>)
        score2 == IF SingleRepeated(raw) THEN score1 - RepeatPenalty ELSE score1
        w2 == w1 \o IfThen(SingleRepeated(raw), <<RepeatWarning>>)
        score3 == IF InDenylist(raw) THEN score2 - DenylistPenalty ELSE score2
        w3 == w2 \o IfThen(InDenylist(raw), <<CommonWarning>>)
        score == Clamp(score3)
    IN  [ password |-> raw,
          length |-> length,
          has_lower |-> has_lower,
          has_upper |-> has_upper,
          has_digit |-> has_digit,
          has_symbol |-> has_symbol,
          score |-> score,
          strength |-> Classify(score),
          warnings |-> w3 ]

----------------------------------------------------------------------------
(* Inputs of the scorer: every string over Alphabet up to MaxLen           *)
(* characters, the strings the documentation and the denylist name, and    *)
(* every threshold from -1 to MaxThreshold besides the default.            *)

Alphabet == {"a", "A", "1", "!", LF, CR, Ideograph, CircledSmallA}

Str(n) == UNION {[1..k -> Alphabet] : k \in 0..n}

Repeat(c, n) == [i \in 1..n |-> c]

aB3x == <<"a","B","3","!">>
Password8 == <<"p","a","s","s","w","o","r","d">>
Qwerty == <<"q","w","e","r","t","y">>
Letmein == <<"l","e","t","m","e","i","n">>

Samples ==
    { Password8, <<"P","a","s","s","w","o","r","d">>,
      <<"P","A","S","S","W","O","R","D">>, Password8 \o <<LF>>,
      Password8 \o <<"1">>, <<"p","a","s","s","w","o","r">>,
      Qwerty, <<"Q","w","E","r","T","y">>, Qwerty \o <<CR, LF>>,
      <<"1","2","3","4","5","6">>, <<"1","2","3","4","5","6","7">>,
      Letmein, <<"L","E","T","M","E","I","N">>,
      aB3x \o aB3x, aB3x \o aB3x \o <<LF>>, aB3x \o aB3x \o aB3x,
      Repeat("a", 8), Repeat("a", 12), Repeat("1", 8), Repeat("!", 12),
      Repeat(Ideograph, 12), Repeat(CircledCapitalA, 12),
      <<"a","b","c","d","e","f","g","h">>,
      <<"A","b","c","d","e","f","g","h","i","j","k","1">> }

Passwords == Str(MaxLen) \cup Samples

Thresholds == ((-1)..MaxThreshold) \cup {MIN_DEFAULT_LENGTH}

NoRecord == <<>>
NoAnalysis == <<>>
NoFault == 0 - 1
NoExit == 0 - 1

MainAtRest ==
    /\ file_exists = TRUE
    /\ fault_at = NoFault
    /\ fault_kind = "none"
    /\ file = <<>>
    /\ top_n = 0
    /\ pc = "scorer"
    /\ pos = 0
    /\ results = <<>>
    /\ analysis = NoAnalysis
    /\ stdout = <<>>
    /\ stderr = ""
    /\ exit_code = NoExit

InitScorer ==
    /\ password \in Passwords
    /\ min_length \in Thresholds
    /\ record = NoRecord
    /\ MainAtRest

\* one call analyze_password(password, min_length)
CallAnalyzePassword ==
    /\ pc = "scorer"
    /\ record = NoRecord
    /\ record' = analyze_password(password, min_length)
    /\ UNCHANGED <<password, min_length>>
    /\ UNCHANGED mainVars

NextScorer == CallAnalyzePassword

SpecScorer == InitScorer /\ [][NextScorer]_vars

----------------------------------------------------------------------------
(* analyze_file                                                            *)

Min(a, b) == IF a <= b THEN a ELSE b
Max(a, b) == IF a >= b THEN a ELSE b

RECURSIVE Sum(_)
Sum(s) == IF s = <<>> THEN 0 ELSE s[1] + Sum(Tail(s))

\* min(lengths), max(lengths)
MinOf(s) == CHOOSE x \in Range(s) : \A y \in Range(s) : x <= y
MaxOf(s) == CHOOSE x \in Range(s) : \A y \in Range(s) : x >= y

\* statistics.mean, kept as the exact quotient num / den
mean(s) == [num |-> Sum(s), den |-> Len(s)]

\* sum(1 for r in results if r["strength"] == level)
CountStrength(rs, level) == Cardinality({i \in DOMAIN rs : rs[i].strength = level})

\* the blank-line test left out
IsBlankNever(line) == FALSE

\* `if not line: continue`, on the line after rstrip
IsBlank(line) == line = <<>>

\* the dict analyze_file returns once the loop has ended with results
Summarise(rs) ==
    LET lengths == [i \in DOMAIN rs |-> rs[i].length]
        scores == [i \in DOMAIN rs |-> rs[i].score]
    IN  [ results |-> rs,
          summary |->
            [ total_passwords |-> Len(rs),
              min_length |-> MinOf(lengths),
              max_length |-> MaxOf(lengths),
              avg_length |-> mean(lengths),
              avg_score |-> mean(scores),
              count_by_strength |->
                [ WEAK |-> CountStrength(rs, "WEAK"),
                  MEDIUM |-> CountStrength(rs, "MEDIUM"),
                  STRONG |-> CountStrength(rs, "STRONG") ] ] ]

----------------------------------------------------------------------------
(* print_report                                                            *)

DisplayMax == 20    \* len(r["password"]) <= 20
DisplayKeep == 17   \* r["password"][:17]
DetailCount == 10   \* results[:10]

\* seq[:n]
SliceTo(seq, n) ==
    IF n >= 0 THEN SubSeq(seq, 1, Min(n, Len(seq)))
    ELSE SubSeq(seq, 1, Max(Len(seq) + n, 0))

\* (r["score"], r["length"]) of a before that of b
KeyLess(a, b) ==
    \/ a.score < b.score
    \/ a.score = b.score /\ a.length < b.length

\* sorted(results, key=...): stable, so r goes after the entries not above it
Insert(seq, r) ==
    LET k == Cardinality({i \in DOMAIN seq : ~KeyLess(r, seq[i])})
    IN  SubSeq(seq, 1, k) \o <<r>> \o SubSeq(seq, k + 1, Len(seq))

RECURSIVE sorted(_)
sorted(rs) ==
    IF rs = <<>> THEN <<>>
    ELSE Insert(sorted(SubSeq(rs, 1, Len(rs) - 1)), rs[Len(rs)])

\* weakest = sorted(results, key=lambda r: (r["score"], r["length"]))[:top_n]
Weakest(rs, n) == SliceTo(sorted(rs), n)

\* r["password"] if len(r["password"]) <= 20 else r["password"][:17] + "..."
Display(pw) ==
    IF Len(pw) <= DisplayMax THEN pw
    ELSE SubSeq(pw, 1, DisplayKeep) \o <<".", ".", ".">>

\* a quotient as `scale`-ths rounded to the nearest, which is what the
\* formats :.2f and :5.1f print: a tie needs a denominator that is a multiple
\* of 8, more lines than the model reads
Rounded(num, den, scale) == (2 * num * scale + den) \div (2 * den)

\* the flags list joined by ",", or "none"
Flags(r) ==
    LET flags == IfThen(r.has_lower, <<"lower">>) \o IfThen(r.has_upper, <<"upper">>)
                 \o IfThen(r.has_digit, <<"digit">>) \o IfThen(r.has_symbol, <<"symbol">>)
    IN  IF flags # <<>> THEN flags ELSE <<"none">>

\* the lines printed for one entry of weakest
WeakLines(r) ==
    << [ kind |-> "weakest", display |-> Display(r.password), score |-> r.score,
         strength |-> r.strength, length |-> r.length ] >>
    \o [i \in DOMAIN r.warnings |-> [kind |-> "warning", text |-> r.warnings[i]]]

RECURSIVE Flatten(_)
Flatten(ss) == IF ss = <<>> THEN <<>> ELSE ss[1] \o Flatten(Tail(ss))

Levels == <<"WEAK", "MEDIUM", "STRONG">>

\* everything print_report prints, line by line
print_report(an, n) ==
    LET rs == an.results
        summary == an.summary
        weakest == Weakest(rs, n)
        first == SliceTo(rs, DetailCount)
    IN  << [ kind |-> "title", text |-> "=== Password audit report ===" ],
           [ kind |-> "total", total |-> summary.total_passwords ],
           [ kind |-> "length", min |-> summary.min_length, max |-> summary.max_length,
             avg100 |-> Rounded(summary.avg_length.num, summary.avg_length.den, 100) ],
           [ kind |-> "score",
             avg100 |-> Rounded(summary.avg_score.num, summary.avg_score.den, 100) ],
           [ kind |-> "section", text |-> "Strength distribution:" ] >>
        \o [ i \in DOMAIN Levels |->
               [ kind |-> "level", level |-> Levels[i],
                 count |-> summary.count_by_strength[Levels[i]],
                 percent10 |-> Rounded(summary.count_by_strength[Levels[i]] * 100,
                                       summary.total_passwords, 10) ] ]
        \o << [ kind |-> "section", text |-> "Top weakest passwords:" ] >>
        \o Flatten([i \in DOMAIN weakest |-> WeakLines(weakest[i])])
        \o << [ kind |-> "section", text |-> "Detailed results (first 10 passwords):" ] >>
        \o [ i \in DOMAIN first |->
               [ kind |-> "detail", display |-> Display(first[i].password),
                 strength |-> first[i].strength, score |-> first[i].score,
                 length |-> first[i].length, chars |-> Flags(first[i]) ] ]

----------------------------------------------------------------------------
(* main: parse_args, analyze_file, print_report                            *)

Tops == (-1)..MaxTop

\* the lines a file is made of: an empty one, one of a single space (not
\* blank to `if not line`), and passwords of each tier and display width
LinePool == { <<>>, <<" ">>, <<"a">>, <<"a", "A", "1", "!">>, Repeat("x", DisplayMax + 1) }

Files == UNION {[1..k -> LinePool] : k \in 0..MaxLines}

FaultKinds == {"OSError", "UnicodeDecodeError"}

Init ==
    /\ password = <<>>
    /\ min_length = MIN_DEFAULT_LENGTH
    /\ record = NoRecord
    /\ file_exists \in BOOLEAN
    /\ file \in (IF file_exists THEN Files ELSE {<<>>})
    /\ fault_at \in (IF file_exists THEN {NoFault} \cup (0..Len(file)) ELSE {NoFault})
    /\ fault_kind \in (IF fault_at = NoFault THEN {"none"} ELSE FaultKinds)
    /\ top_n = 0
    /\ pc = "parse_args"
    /\ pos = 0
    /\ results = <<>>
    /\ analysis = NoAnalysis
    /\ stdout = <<>>
    /\ stderr = ""
    /\ exit_code = NoExit

\* args = parse_args()
ParseArgs ==
    /\ pc = "parse_args"
    /\ \E m \in Thresholds, n \in Tops :
          /\ min_length' = m
          /\ top_n' = n
    /\ pc' = "open"
    /\ UNCHANGED <<password, record, file_exists, fault_at, fault_kind, file, pos,
                   results, analysis, stdout, stderr, exit_code>>

\* raise SystemExit(message): the message on stderr, exit status 1
SystemExit(message) ==
    /\ stderr' = message
    /\ exit_code' = 1
    /\ pc' = "fatal"

\* open(path) raises FileNotFoundError
OpenNotFound ==
    /\ pc = "open"
    /\ ~file_exists
    /\ SystemExit("Error: file not found.")
    /\ UNCHANGED <<password, min_length, record, file_exists, fault_at, fault_kind, file,
                   top_n, pos, results, analysis, stdout>>

\* open(path) returns
Open ==
    /\ pc = "open"
    /\ file_exists
    /\ pc' = "read"
    /\ UNCHANGED <<password, min_length, record, file_exists, fault_at, fault_kind, file,
                   top_n, pos, results, analysis, stdout, stderr, exit_code>>

\* one turn of `for line in f` on a blank line
ReadBlankLine ==
    /\ pc = "read"
    /\ pos < Len(file)
    /\ fault_at # pos
    /\ IsBlank(rstrip(file[pos + 1] \o <<LF>>))
    /\ pos' = pos + 1
    /\ UNCHANGED <<password, min_length, record, file_exists, fault_at, fault_kind, file,
                   top_n, pc, results, analysis, stdout, stderr, exit_code>>

\* one turn of `for line in f` on any other line
ReadLine ==
    /\ pc = "read"
    /\ pos < Len(file)
    /\ fault_at # pos
    /\ LET line == rstrip(file[pos + 1] \o <<LF>>)
       IN  /\ ~IsBlank(line)
           /\ password' = line
           /\ record' = analyze_password(line, min_length)
           /\ results' = Append(results, record')
    /\ pos' = pos + 1
    /\ UNCHANGED <<min_length, file_exists, fault_at, fault_kind, file, top_n, pc,
                   analysis, stdout, stderr, exit_code>>

\* `except OSError: pass`: the loop is left and the function goes on
ReadOSErrorSwallowed ==
    /\ pc = "read"
    /\ fault_at = pos
    /\ fault_kind = "OSError"
    /\ IF results = <<>>
       THEN /\ SystemExit("Error: no passwords found in file (file is empty or only blank lines).")
            /\ UNCHANGED analysis
       ELSE /\ analysis' = Summarise(results)
            /\ pc' = "print_report"
            /\ UNCHANGED <<stderr, exit_code>>
    /\ UNCHANGED <<password, min_length, record, file_exists, fault_at, fault_kind, file,
                   top_n, pos, results, stdout>>

\* the open or a read raises OSError: except OSError
ReadOSError ==
    /\ pc = "read"
    /\ fault_at = pos
    /\ fault_kind = "OSError"
    /\ SystemExit("Error reading file.")
    /\ UNCHANGED <<password, min_length, record, file_exists, fault_at, fault_kind, file,
                   top_n, pos, results, analysis, stdout>>

\* a read raises UnicodeDecodeError, which no except clause names: the
\* interpreter prints the traceback and exits with status 1
ReadDecodeError ==
    /\ pc = "read"
    /\ fault_at = pos
    /\ fault_kind = "UnicodeDecodeError"
    /\ stderr' = "Traceback (most recent call last): UnicodeDecodeError"
    /\ exit_code' = 1
    /\ pc' = "fatal"
    /\ UNCHANGED <<password, min_length, record, file_exists, fault_at, fault_kind, file,
                   top_n, pos, results, analysis, stdout>>

\* the loop ends without results: if not results
NoPasswords ==
    /\ pc = "read"
    /\ pos = Len(file)
    /\ fault_at # pos
    /\ results = <<>>
    /\ SystemExit("Error: no passwords found in file (file is empty or only blank lines).")
    /\ UNCHANGED <<password, min_length, record, file_exists, fault_at, fault_kind, file,
                   top_n, pos, results, analysis, stdout>>

\* the loop ends with results: the summary is computed and returned
ReturnAnalysis ==
    /\ pc = "read"
    /\ pos = Len(file)
    /\ fault_at # pos
    /\ results # <<>>
    /\ analysis' = Summarise(results)
    /\ pc' = "print_report"
    /\ UNCHANGED <<password, min_length, record, file_exists, fault_at, fault_kind, file,
                   top_n, pos, results, stdout, stderr, exit_code>>

\* print_report(analysis, top_n=args.top), then main returns
PrintReport ==
    /\ pc = "print_report"
    /\ stdout' = print_report(analysis, top_n)
    /\ exit_code' = 0
    /\ pc' = "done"
    /\ UNCHANGED <<password, min_length, record, file_exists, fault_at, fault_kind, file,
                   top_n, pos, results, analysis, stderr>>

Next ==
    \/ ParseArgs
    \/ OpenNotFound
    \/ Open
    \/ ReadBlankLine
    \/ ReadLine
    \/ ReadOSError
    \/ ReadDecodeError
    \/ NoPasswords
    \/ ReturnAnalysis
    \/ PrintReport

Spec == Init /\ [][Next]_vars

----------------------------------------------------------------------------
(* The properties of analyze_file, main and print_report.                  *)

\* the lines that hold anything besides line-ending characters
NonBlankLines == {i \in DOMAIN file : \E j \in DOMAIN file[i] : file[i][j] \notin {LF, CR}}

\* C6: when analyze_file returns, the summary counts all three tiers, the
\* counts sum to total_passwords, and total_passwords is the number of
\* non-blank lines of the file.
C6_CountsSumToTotal ==
    analysis # NoAnalysis =>
        LET summary == analysis.summary
            counts == summary.count_by_strength
        IN  /\ DOMAIN counts = {"WEAK", "MEDIUM", "STRONG"}
            /\ counts["WEAK"] + counts["MEDIUM"] + counts["STRONG"] = summary.total_passwords
            /\ summary.total_passwords = Cardinality(NonBlankLines)

\* C6 witness: a summary of several passwords read from a file that also has
\* a blank line, with a tier nobody is in.
C6_Witness ==
    /\ analysis # NoAnalysis
    /\ analysis.summary.total_passwords >= 2
    /\ Cardinality(NonBlankLines) < Len(file)
    /\ analysis.summary.count_by_strength["STRONG"] = 0

\* the three conditions under which the run must fail
FileNotFound == ~file_exists
ReadFails == file_exists /\ fault_at # NoFault
NoUsableLine == file_exists /\ NonBlankLines = {}
MustFail == FileNotFound \/ ReadFails \/ NoUsableLine

\* what holds of every state of a run
C7_State ==
    /\ MustFail => (stdout = <<>> /\ pc \notin {"print_report", "done"})
    /\ pc = "fatal" =>
          /\ MustFail
          /\ stdout = <<>>
          /\ stderr # ""
          /\ exit_code \notin {0, NoExit}
    /\ stdout # <<>> =>
          /\ pos = Len(file)
          /\ Len(results) >= 1
          /\ Len(results) = Cardinality(NonBlankLines)

\* what holds of every step of a run: each failure is followed at once by
\* the fatal state, and no step leaves the fatal state
C7_Step ==
    /\ (pc = "open" /\ FileNotFound) => pc' = "fatal"
    /\ (pc = "read" /\ fault_at = pos) => pc' = "fatal"
    /\ (pc = "read" /\ pos = Len(file) /\ NoUsableLine) => pc' = "fatal"
    /\ pc # "fatal"

\* C7: with the file missing, a read failing at any point (also after lines
\* were scored) or no non-blank line, the run goes to the fatal state, with a
\* diagnostic and a non-zero exit status, and stays there, and nothing of
\* the report is ever printed; the report is printed only after every line
\* was read and with at least one record.
C7_NoPartialReport == []C7_State /\ [][C7_Step]_vars

\* C7 witness: a read that failed after a line had been scored.
C7_Witness ==
    /\ pc = "fatal"
    /\ fault_at >= 1
    /\ results # <<>>
    /\ stdout = <<>>

\* the (score, length) of the entries the report lists as weakest, in order
Listed == SelectSeq(stdout, LAMBDA l : l.kind = "weakest")

KeyBefore(a, b) == a.score < b.score \/ (a.score = b.score /\ a.length < b.length)

\* C8 as stated: the report lists at most N weakest records (none for
\* N <= 0, the reading that asks least of a negative N), in ascending order
\* of (score, length), and no record left out comes strictly before a
\* listed one.
C8_TopWeakest ==
    pc = "done" =>
        /\ Len(Listed) <= Max(top_n, 0)
        /\ \A i, j \in DOMAIN Listed : i < j => ~KeyBefore(Listed[j], Listed[i])
        /\ \A i \in DOMAIN Listed :
              Cardinality({k \in DOMAIN results : KeyBefore(results[k], Listed[i])})
              = Cardinality({k \in DOMAIN Listed : KeyBefore(Listed[k], Listed[i])})

\* C8 for N >= 0, where the code does what the statement says
C8_NonNegativeTop == top_n >= 0 => C8_TopWeakest

----------------------------------------------------------------------------
(* The scorer's properties, stated on the call's input and on the record   *)
(* it returned, with the quantities of the statements computed directly    *)
(* from the input.                                                         *)

Returned == record # NoRecord

\* the input without its trailing line-ending characters
Stripped ==
    LET keep == {i \in DOMAIN password : password[i] \notin {LF, CR}}
    IN  SubSeq(password, 1, IF keep = {} THEN 0 ELSE CHOOSE i \in keep : \A j \in keep : j <= i)

ClassOf(c) ==
    {k \in {"lowercase", "uppercase", "digit", "symbol"} :
        \/ k = "lowercase" /\ islower(c)
        \/ k = "uppercase" /\ isupper(c)
        \/ k = "digit" /\ isdigit(c)
        \/ k = "symbol" /\ ~isalnum(c)}

ClassesPresent == UNION {ClassOf(Stripped[i]) : i \in DOMAIN Stripped}

AllIdentical ==
    Stripped # <<>> /\ \A i, j \in DOMAIN Stripped : Stripped[i] = Stripped[j]

Denylisted ==
    \E d \in Denylist :
        /\ Len(d) = Len(Stripped)
        /\ \A i \in DOMAIN d : lower_char(Stripped[i]) = d[i]

Ind(b) == IF b THEN 1 ELSE 0
Max0(x) == IF x > 0 THEN x ELSE 0

\* the points for length and character classes, before any penalty
BasePoints ==
    2 * Ind(Len(Stripped) >= min_length) + 2 * Ind(Len(Stripped) >= min_length + 4)
    + Cardinality(ClassesPresent)

Carries(w) == \E i \in DOMAIN record.warnings : record.warnings[i] = w

\* C1: the score of every returned record is >= 0.
C1_ScoreNonNegative == Returned => record.score >= 0

\* C1 witness: a call whose penalties exceed its points, returned with score 0.
C1_Witness ==
    /\ Returned
    /\ BasePoints - 2 * Ind(AllIdentical) - 3 * Ind(Denylisted) < 0
    /\ record.score = 0

\* C2: the strength tier is determined by the score alone: 0..3 is WEAK,
\* 4..6 is MEDIUM, 7 and above is STRONG.
C2_TierFromScore ==
    Returned =>
        /\ record.score \in 0..3 => record.strength = "WEAK"
        /\ record.score \in 4..6 => record.strength = "MEDIUM"
        /\ record.score >= 7 => record.strength = "STRONG"
        /\ record.strength \in {"WEAK", "MEDIUM", "STRONG"}

\* C2 witness: a record at the lower edge of the STRONG tier.
C2_Witness == Returned /\ record.score = 7 /\ record.strength = "STRONG"

\* C3 as stated: a denylisted password carries the common-password warning
\* and scores exactly 3 less than it would with the denylist penalty absent.
C3_Original ==
    (Returned /\ Denylisted) =>
        /\ Carries(CommonWarning)
        /\ record.score = Max0(BasePoints - 2 * Ind(AllIdentical)) - 3

\* C3 amended: a denylisted password carries the common-password warning
\* and scores max(0, w - 3), where w is its score with the denylist penalty
\* absent: exactly 3 less when w >= 3, and 0 otherwise.
C3_DenylistPenalty ==
    (Returned /\ Denylisted) =>
        /\ Carries(CommonWarning)
        /\ record.score = Max0(Max0(BasePoints - 2 * Ind(AllIdentical)) - 3)

\* C3 witness: a denylisted password in other than lower case whose penalty
\* is not absorbed by the clamp.
C3_Witness ==
    /\ Returned
    /\ Denylisted
    /\ Stripped \notin Denylist
    /\ record.score > 0

\* C4 as stated: a non-empty password of identical characters carries the
\* repeated-character warning and scores exactly 2 less than it would with
\* the repeated-character penalty absent.
C4_Original ==
    (Returned /\ AllIdentical) =>
        /\ Carries(RepeatWarning)
        /\ record.score = Max0(BasePoints - 3 * Ind(Denylisted)) - 2

\* C4 amended: a non-empty password of identical characters carries the
\* repeated-character warning and scores max(0, w - 2), where w is its score
\* with the repeated-character penalty absent: exactly 2 less when w >= 2,
\* and 0 otherwise.
C4_RepeatPenalty ==
    (Returned /\ AllIdentical) =>
        /\ Carries(RepeatWarning)
        /\ record.score = Max0(Max0(BasePoints - 3 * Ind(Denylisted)) - 2)

\* C4 witness: a repeated character whose penalty is not absorbed by the clamp.
C4_Witness ==
    /\ Returned
    /\ AllIdentical
    /\ Len(Stripped) > 1
    /\ record.score > 0

\* C5: the warnings list is empty exactly when the length reaches the
\* threshold, at least two character classes are present, the password is
\* not a single repeated character and its lowercased text is not denylisted.
C5_WarningsEmptyIff ==
    Returned =>
        (record.warnings = <<>>
            <=> /\ Len(Stripped) >= min_length
                /\ Cardinality(ClassesPresent) >= 2
                /\ ~AllIdentical
                /\ ~Denylisted)

\* C5 witness: a record returned without warnings.
C5_Witness == Returned /\ record.warnings = <<>> /\ record.length > 0

\* C9: the score is max(0, 2*[length >= t] + 2*[length >= t+4] + classes
\* - 2*[repeated] - 3*[denylisted]) with the length taken after stripping the
\* trailing line endings; "aB3!aB3!" at 8 scores 6, MEDIUM, without
\* warnings, and "aaaaaaaa" at 8 scores 1, WEAK.
C9_ScoreFormula ==
    Returned =>
        /\ record.length = Len(Stripped)
        /\ record.score =
              Max0(BasePoints - 2 * Ind(AllIdentical) - 3 * Ind(Denylisted))
        /\ (password = aB3x \o aB3x /\ min_length = 8) =>
              /\ record.score = 6
              /\ record.strength = "MEDIUM"
              /\ record.warnings = <<>>
        /\ (password = Repeat("a", 8) /\ min_length = 8) =>
              /\ record.score = 1
              /\ record.strength = "WEAK"

\* C9 witness: the documented example "aB3!aB3!" followed by a line ending.
C9_Witness ==
    /\ Returned
    /\ password = aB3x \o aB3x \o <<LF>>
    /\ min_length = 8
    /\ record.score = 6

\* C10: a STRONG record has no warnings, a length of at least t + 4 and at
\* least three character classes; the score never exceeds 8.
C10_StrongIsClean ==
    Returned =>
        /\ record.score <= 8
        /\ record.strength = "STRONG" =>
              /\ record.warnings = <<>>
              /\ record.length >= min_length + 4
              /\ Cardinality(ClassesPresent) >= 3

\* C10 witness: a STRONG record with the largest score.
C10_Witness == Returned /\ record.strength = "STRONG" /\ record.score = 8

====
